---------------------------- MODULE Spec2Model ----------------------------
(***************************************************************************)
(* A model of erikh/dnsserver: the in-memory record store (db/map.go) and  *)
(* the resolver built on it (dnsserver.go).                                *)
(*                                                                         *)
(* Go's reference types are modelled with explicit memory: a net.IP is a   *)
(* slice, i.e. a pointer to a backing array (ipMem), and the SRV map holds *)
(* *SRVRecord pointers (srvMem).  Maps are functions whose DOMAIN is the   *)
(* set of keys present.  Strings are TLA+ strings and concatenation is \o. *)
(***************************************************************************)
EXTENDS Integers, Sequences, FiniteSets, TLC

VARIABLES
    domain,      \* Server.domain
    aRecords,    \* Map.aRecords: FQDN -> pointer to the address's backing array
    srvRecords,  \* Map.srvRecords: specifier -> pointer to an SRVRecord
    ipMem,       \* backing arrays of the net.IP slices
    srvMem,      \* the SRVRecord objects
    recsA,       \* the caller's variable holding the last ListA() result
    recsSRV,     \* the caller's variable holding the last ListSRV() result
    request,     \* the questions of the last query served
    reply,       \* the message ServeDNS wrote for it
    regA,        \* history: per host, "unset", "set" or (set, then) "deleted"
    regSRV,      \* history: per service and protocol, likewise
    pc,          \* per goroutine, the statement it is at ("idle": in no call)
    frame,       \* per goroutine, the arguments and locals of its call
    aMutex,      \* Map.aMutex
    srvMutex,    \* Map.srvMutex
    started,     \* history: the number of calls made by goroutines
    registered,  \* history: per key, the values Set calls were made with
    lastLocked,  \* history: per key, the value of the Set that locked last
    served,      \* history: the ServeDNS calls made, and the replies written
    server,      \* Server.server: nil until Listen, then the dns.Server
    listenIP,    \* Server.listenIP
    listenPort,  \* Server.listenPort
    closes,      \* history: the number of calls of Close
    err,         \* the error the last call into the server or the DB returned
    dbFault      \* the names on which the DB behind the server fails

(* The goroutines' part of the state.                                      *)
conc ==
    <<pc, frame, aMutex, srvMutex, started, registered, lastLocked, served>>

(* What no call into the store or the resolver writes.                     *)
quiet == <<conc, server, listenIP, listenPort, closes, dbFault>>

vars == <<domain, aRecords, srvRecords, ipMem, srvMem, recsA, recsSRV,
          request, reply, regA, regSRV, conc, server, listenIP, listenPort,
          closes, err, dbFault>>

---------------------------------------------------------------------------
(* Bounds of the model.                                                    *)

MaxIPPtr == 4       \* backing arrays that can be live at once
MaxSrvPtr == 4      \* SRVRecord objects that can be live at once
MaxHostLen == 20    \* longest SRVRecord.Host a caller passes or the server builds
MaxQuestions == 2   \* questions in one query
NumProcs == 2       \* goroutines calling into the server concurrently
MaxCalls == 3       \* calls the goroutines make in one behaviour
MaxCloses == 2      \* calls of Close in one behaviour

DomainArg == "docker"            \* the argument of New(), as in the tests
Hosts == {"test", "test2"}       \* unqualified host names
Services == {"test", "test2"}
Protocols == {"tcp"}
Ports == {80}                    \* ports of the records callers register
ListPorts == {5150}              \* ports a caller writes into a listed record
ListHosts == {"test"}            \* hosts a caller writes into a listed record

(* The addresses callers register (those of the tests), and the bytes a    *)
(* caller writes into an address it holds: <<index, value>>.               *)
IPs == {<<127, 0, 0, 2>>, <<127, 0, 0, 3>>}
ByteWrites == {<<4, 2>>, <<4, 3>>}
IPPtrs == 1..MaxIPPtr
SrvPtrs == 1..MaxSrvPtr
Procs == 1..NumProcs

(* The content of a cell of memory that no live pointer refers to.         *)
FreeIP == <<>>
FreeSRV == [Port |-> 0, Host |-> ""]

---------------------------------------------------------------------------
(* db/types.go, db/db.go                                                   *)

SRVRecord(port, host) == [Port |-> port, Host |-> host]

ErrNotFound == "not found"
Nil == "nil"

---------------------------------------------------------------------------
(* Helpers for Go maps and memory.                                         *)

Range(f) == {f[k] : k \in DOMAIN f}

MapPut(m, k, v) == [x \in DOMAIN m \cup {k} |-> IF x = k THEN v ELSE m[x]]

MapDelete(m, k) == [x \in DOMAIN m \ {k} |-> m[x]]

EmptyMap == [x \in {} |-> Nil]

(* A new allocation gets an address no live object has.                    *)
NewPtr(ptrs, live) == CHOOSE p \in ptrs \ live : \A q \in ptrs \ live : p <= q

(* Garbage collection: a cell no root refers to is free.                   *)
Collect(mem, live, free) ==
    [p \in DOMAIN mem |-> IF p \in live THEN mem[p] ELSE free]

---------------------------------------------------------------------------
(* dnsserver.go: construction and the name qualifier                       *)

NewWithDB(d) == d \o "."

qualifyHost(host) == host \o "." \o domain

qualifySrv(service, protocol) == "_" \o service \o "._" \o protocol \o "." \o domain

(* qualifySrvHost that leaves the host as the caller wrote it.             *)
qualifySrvHost_Bare(mem, srv) == mem

(* qualifySrvHost writes srv.Host of the caller's record in place.         *)
qualifySrvHost(mem, srv) ==
    [mem EXCEPT ![srv] = [@ EXCEPT !.Host = qualifyHost(@)]]

---------------------------------------------------------------------------
(* db/map.go                                                               *)

NewMap == [aRecords |-> EmptyMap, srvRecords |-> EmptyMap]

Map_SetA(recs, host, ip) == MapPut(recs, host, ip)

(* DeleteA that leaves the entry in the map.                               *)
Map_DeleteA_Keeps(recs, host) == recs

Map_DeleteA(recs, host) == MapDelete(recs, host)

Map_GetA(recs, fqdn) ==
    IF fqdn \notin DOMAIN recs
    THEN [val |-> Nil, err |-> ErrNotFound]
    ELSE [val |-> recs[fqdn], err |-> Nil]

(* rec[:] is a slice of the whole of rec: the same backing array.          *)
SliceAll(rec) == rec

Map_ListA(recs) == [name \in DOMAIN recs |-> SliceAll(recs[name])]

Map_SetSRV(recs, spec, srv) == MapPut(recs, spec, srv)

Map_GetSRV(recs, spec) ==
    IF spec \notin DOMAIN recs
    THEN [srv |-> Nil, err |-> ErrNotFound]
    ELSE [srv |-> recs[spec], err |-> Nil]

(* Delete that empties the mapping.                                        *)
Map_DeleteSRV_All(recs, spec) == EmptyMap

Map_DeleteSRV(recs, spec) == MapDelete(recs, spec)

(* t := *rec; tmp[name] = &t: every entry gets a new object, a copy of     *)
(* the record, at an address (fresh[name]) no live object has.             *)
CopyRecord(mem, rec, t) == [mem EXCEPT ![t] = mem[rec]]

(* tmp[name] = rec: the listing holds the store's own object.              *)
ListSRVTarget_Live(rec, t) == rec

ListSRVTarget(rec, t) == t

RECURSIVE CopyAll(_, _, _, _)
CopyAll(mem, recs, fresh, names) ==
    IF names = {} THEN mem
    ELSE LET name == CHOOSE n \in names : TRUE
         IN  CopyAll(CopyRecord(mem, recs[name], fresh[name]), recs, fresh,
                     names \ {name})

(* ListSRV that returns the store's map entries as they are.               *)
Map_ListSRV_Live(recs, mem, fresh) == [tmp |-> recs, mem |-> mem]

Map_ListSRV(recs, mem, fresh) ==
    [tmp |-> [name \in DOMAIN recs |-> ListSRVTarget(recs[name], fresh[name])],
     mem |-> CopyAll(mem, recs, fresh, DOMAIN recs)]

(* The addresses of the objects ListSRV allocates: distinct, and distinct  *)
(* from every object the store holds.                                      *)
FreshFor(recs) ==
    CHOOSE f \in [DOMAIN recs -> SrvPtrs \ Range(recs)] :
        \A a, b \in DOMAIN recs : a # b => f[a] # f[b]

---------------------------------------------------------------------------
(* github.com/miekg/dns, as dnsserver.go uses it                           *)

TypeA == 1
TypeSRV == 33
OtherTypes == {16}
ClassINET == 1
RcodeSuccess == 0
RcodeNameError == 3

RR_Header(name, rrtype) ==
    [Name |-> name, Rrtype |-> rrtype, Class |-> ClassINET, Ttl |-> 1]

(* Msg.SetReply, Msg.SetRcode: a response with the given code; the other   *)
(* header bits keep their zero values until ServeDNS sets them.            *)
SetRcode(m, rcode) == [m EXCEPT !.Response = TRUE, !.Rcode = rcode]

NewMsg ==
    [Response |-> FALSE, Rcode |-> RcodeSuccess, Authoritative |-> FALSE,
     RecursionAvailable |-> FALSE, Answer |-> <<>>]

(* ResponseWriter.WriteMsg packs the message: the bytes of an A record's   *)
(* address are read from its backing array at this point.                  *)
PackRR(rr, mem) ==
    IF rr.Hdr.Rrtype = TypeA THEN [rr EXCEPT !.A = mem[rr.A]] ELSE rr

WriteMsg(m, mem) ==
    [m EXCEPT !.Answer = [i \in 1..Len(m.Answer) |-> PackRR(m.Answer[i], mem)]]

---------------------------------------------------------------------------
(* dnsserver.go: the record synthesizer and the resolver                   *)

(* Server.db is a db.DB, an interface: the DB behind the server is Map or  *)
(* one plugged in, which may fail.  A DB fails on the names in dbFault     *)
(* (none, for Map): it returns an error other than ErrNotFound, along      *)
(* with whatever value it has.                                             *)
ErrBackend == "backend error"

DB_GetA(recs, fqdn) ==
    IF fqdn \in dbFault
    THEN [Map_GetA(recs, fqdn) EXCEPT !.err = ErrBackend]
    ELSE Map_GetA(recs, fqdn)

DB_GetSRV(recs, spec) ==
    IF spec \in dbFault
    THEN [Map_GetSRV(recs, spec) EXCEPT !.err = ErrBackend]
    ELSE Map_GetSRV(recs, spec)

(* GetA that builds a record from the value the DB has, whatever the      *)
(* error it returns with it.                                               *)
GetA_DespiteError(recs, fqdn) ==
    LET got == Map_GetA(recs, fqdn)
    IN  IF got.err # Nil THEN <<>>
        ELSE << [Hdr |-> RR_Header(fqdn, TypeA), A |-> got.val] >>

GetA(recs, fqdn) ==
    LET got == DB_GetA(recs, fqdn)
    IN  IF got.err # Nil THEN <<>>
        ELSE << [Hdr |-> RR_Header(fqdn, TypeA), A |-> got.val] >>

GetSRV(recs, mem, spec) ==
    LET got == DB_GetSRV(recs, spec)
    IN  IF got.err # Nil THEN <<>>
        ELSE << [Hdr |-> RR_Header(spec, TypeSRV), Priority |-> 0, Weight |-> 0,
                 Port |-> mem[got.srv].Port, Target |-> mem[got.srv].Host] >>

(* The switch of ServeDNS with a default case that looks the name up as   *)
(* an A record.                                                            *)
AnswersFor_AnyType(question, recsOfA, recsOfSRV, mem) ==
    IF question.Qtype = TypeSRV THEN GetSRV(recsOfSRV, mem, question.Name)
    ELSE GetA(recsOfA, question.Name)

(* The lookup the switch of ServeDNS makes for a question: the case of     *)
(* its type calls GetA or GetSRV, and there is no other case.              *)
LookupFor(question) ==
    IF question.Qtype = TypeA THEN << <<"GetA", question.Name>> >>
    ELSE IF question.Qtype = TypeSRV THEN << <<"GetSRV", question.Name>> >>
    ELSE <<>>

AnswersFor(question, recsOfA, recsOfSRV, mem) ==
    IF question.Qtype = TypeA THEN GetA(recsOfA, question.Name)
    ELSE IF question.Qtype = TypeSRV THEN GetSRV(recsOfSRV, mem, question.Name)
    ELSE <<>>

(* A resolver that gives up at the first question without an answer.      *)
RECURSIVE Collected_UntilMiss(_, _, _, _)
Collected_UntilMiss(questions, recsOfA, recsOfSRV, mem) ==
    IF questions = <<>> THEN <<>>
    ELSE LET first == AnswersFor(Head(questions), recsOfA, recsOfSRV, mem)
         IN  IF first = <<>> THEN <<>>
             ELSE first \o Collected_UntilMiss(Tail(questions), recsOfA,
                                               recsOfSRV, mem)

RECURSIVE Collected(_, _, _, _)
Collected(questions, recsOfA, recsOfSRV, mem) ==
    IF questions = <<>> THEN <<>>
    ELSE AnswersFor(Head(questions), recsOfA, recsOfSRV, mem)
         \o Collected(Tail(questions), recsOfA, recsOfSRV, mem)

(* A reply that never asserts the Authoritative bit.                       *)
BuildReply_NotAuthoritative(answers) ==
    IF Len(answers) = 0
    THEN SetRcode(NewMsg, RcodeNameError)
    ELSE SetRcode([NewMsg EXCEPT !.Answer = answers], RcodeSuccess)

BuildReply(answers) ==
    IF Len(answers) = 0
    THEN SetRcode(NewMsg, RcodeNameError)
    ELSE SetRcode([NewMsg EXCEPT !.Authoritative = TRUE,
                                 !.RecursionAvailable = FALSE,
                                 !.Answer = answers], RcodeSuccess)

(* The message ServeDNS writes for the questions r, in the current state.  *)
Serve(r) ==
    WriteMsg(BuildReply(Collected(r, aRecords, srvRecords, srvMem)), ipMem)

---------------------------------------------------------------------------
(* The inputs of the model.                                                *)

AKeys == {qualifyHost(h) : h \in Hosts}
SRVKeys == {qualifySrv(s, p) : s \in Services, p \in Protocols}
SvcProtos == Services \X Protocols

(* Names a query may ask for: keys of either kind, and names that share    *)
(* only a prefix or only a suffix with a key.                              *)
QNames ==
    AKeys \cup {qualifySrv("test", "tcp"), "test." \o DomainArg, "est." \o domain}
QTypes == {TypeA, TypeSRV} \cup OtherTypes
Questions == [Name : QNames, Qtype : QTypes]
Requests == UNION {[1..n -> Questions] : n \in 0..MaxQuestions}
SingleRequests == {<<>>} \cup {<<q>> : q \in Questions}

(* A listing variable of the caller before any List call returned.         *)
NoListing == [taken |-> FALSE, m |-> EmptyMap]
Listing(m) == [taken |-> TRUE, m |-> m]

---------------------------------------------------------------------------
(* A server on which Listen has not been called.                           *)
NotListening ==
    /\ server = Nil
    /\ listenIP = FreeIP
    /\ listenPort = 0
    /\ closes = 0

(* sync.RWMutex: at most one writer (w, 0 when there is none), or any      *)
(* number of readers (r).                                                  *)

NewRWMutex == [w |-> 0, r |-> {}]

CanLock(mu) == mu.w = 0 /\ mu.r = {}
Lock(mu, p) == [mu EXCEPT !.w = p]
(* An Unlock that leaves the mutex held.                                   *)
Unlock_Keeps(mu, p) == mu

Unlock(mu, p) == [mu EXCEPT !.w = 0]

(* An RLock that does not wait for the writer.                             *)
CanRLock_Always(mu) == TRUE

CanRLock(mu) == mu.w = 0
RLock(mu, p) == [mu EXCEPT !.r = @ \cup {p}]
RUnlock(mu, p) == [mu EXCEPT !.r = @ \ {p}]

(* The locals of a goroutine that is in no call.                           *)
(* op: the call; key: the qualified name; ptr: the slice or record the    *)
(* call holds; port, host: the fields GetSRV and qualifySrvHost have read; *)
(* r: the questions of the query ServeDNS serves; i: the one its loop is   *)
(* at; answers: the records it has collected; ip, rec: history, the value  *)
(* a Set call was made with.                                               *)
NoFrame ==
    [op |-> "", key |-> "", ptr |-> 0, host |-> "", port |-> 0,
     found |-> FALSE, r |-> <<>>, i |-> 0, answers |-> <<>>, ip |-> FreeIP,
     rec |-> FreeSRV]

InitConc ==
    /\ pc = [p \in Procs |-> "idle"]
    /\ frame = [p \in Procs |-> NoFrame]
    /\ aMutex = NewRWMutex
    /\ srvMutex = NewRWMutex
    /\ started = 0
    /\ registered = [k \in AKeys \cup SRVKeys |-> {}]
    /\ lastLocked = [k \in AKeys \cup SRVKeys |-> {}]
    /\ served = [asked |-> 0, answered |-> 0]

---------------------------------------------------------------------------
(* The state after New(DomainArg).                                         *)

Constructed(d) ==
    /\ domain = NewWithDB(d)
    /\ aRecords = NewMap.aRecords
    /\ srvRecords = NewMap.srvRecords
    /\ ipMem = [p \in IPPtrs |-> FreeIP]
    /\ srvMem = [p \in SrvPtrs |-> FreeSRV]
    /\ recsA = NoListing
    /\ recsSRV = NoListing
    /\ request = <<>>
    /\ reply = NewMsg
    /\ regA = [h \in Hosts |-> "unset"]
    /\ regSRV = [sp \in SvcProtos |-> "unset"]
    /\ InitConc
    /\ NotListening
    /\ err = Nil
    /\ dbFault = {}

Init == Constructed(DomainArg)

---------------------------------------------------------------------------
(* Server.SetA(host, ip), ip a slice the caller has just built             *)
(* (net.ParseIP): its backing array is a new allocation.                   *)

SetA(host, ip) ==
    LET key == qualifyHost(host)
        live == Range(MapDelete(aRecords, key)) \cup Range(recsA.m)
        p == NewPtr(IPPtrs, live)
    IN  /\ IPPtrs \ live # {}
        /\ aRecords' = Map_SetA(aRecords, key, p)
        /\ ipMem' = Collect([ipMem EXCEPT ![p] = ip], live \cup {p}, FreeIP)
        /\ regA' = [regA EXCEPT ![host] = "set"]
        /\ err' = Nil
        /\ UNCHANGED <<quiet, domain, srvRecords, srvMem, recsA, recsSRV,
                       request, reply, regSRV>>

(* Server.DeleteA(host)                                                    *)
DeleteA(host) ==
    LET key == qualifyHost(host)
    IN  /\ aRecords' = Map_DeleteA(aRecords, key)
        /\ ipMem' = Collect(ipMem, Range(aRecords') \cup Range(recsA.m), FreeIP)
        /\ regA' = [regA EXCEPT
                      ![host] = IF @ = "set" THEN "deleted" ELSE @]
        /\ err' = Nil
        /\ UNCHANGED <<quiet, domain, srvRecords, srvMem, recsA, recsSRV,
                       request, reply, regSRV>>

(* recs, err := ListA()                                                    *)
ListA ==
    /\ recsA' = Listing(Map_ListA(aRecords))
    /\ ipMem' = Collect(ipMem, Range(aRecords) \cup Range(recsA'.m), FreeIP)
    /\ err' = Nil
    /\ UNCHANGED <<quiet, domain, aRecords, srvRecords, srvMem, recsSRV,
                   request, reply, regA, regSRV>>

(* The caller's statements on a listing it holds:                          *)
(* recs[name] = net.ParseIP(...)                                           *)
RecsAPut(name, ip) ==
    LET live == Range(aRecords) \cup Range(MapDelete(recsA.m, name))
        p == NewPtr(IPPtrs, live)
    IN  /\ recsA.taken
        /\ IPPtrs \ live # {}
        /\ recsA' = Listing(MapPut(recsA.m, name, p))
        /\ ipMem' = Collect([ipMem EXCEPT ![p] = ip], live \cup {p}, FreeIP)
        /\ UNCHANGED <<quiet, err, domain, aRecords, srvRecords, srvMem,
                       recsSRV, request, reply, regA, regSRV>>

(* delete(recs, name)                                                      *)
RecsADelete(name) ==
    /\ name \in DOMAIN recsA.m
    /\ recsA' = Listing(MapDelete(recsA.m, name))
    /\ ipMem' = Collect(ipMem, Range(aRecords) \cup Range(recsA'.m), FreeIP)
    /\ UNCHANGED <<quiet, err, domain, aRecords, srvRecords, srvMem, recsSRV,
                   request, reply, regA, regSRV>>

(* recs[name][i] = b                                                       *)
RecsAWriteByte(name, i, b) ==
    /\ name \in DOMAIN recsA.m
    /\ ipMem' = [ipMem EXCEPT ![recsA.m[name]][i] = b]
    /\ UNCHANGED <<quiet, err, domain, aRecords, srvRecords, srvMem, recsA,
                   recsSRV, request, reply, regA, regSRV>>

---------------------------------------------------------------------------
(* Server.SetSRV(service, protocol, srv): the record is qualified in       *)
(* place, then the store keeps the pointer.                                *)

ServerSetSRV(recs, mem, service, protocol, srv) ==
    [recs |-> Map_SetSRV(recs, qualifySrv(service, protocol), srv),
     mem |-> qualifySrvHost(mem, srv)]

(* The caller passes a record it has just built, &db.SRVRecord{port, host}. *)
SetSRV(service, protocol, port, host) ==
    LET key == qualifySrv(service, protocol)
        live == Range(MapDelete(srvRecords, key)) \cup Range(recsSRV.m)
        srv == NewPtr(SrvPtrs, live)
        built == [srvMem EXCEPT ![srv] = SRVRecord(port, host)]
        done == ServerSetSRV(srvRecords, built, service, protocol, srv)
    IN  /\ SrvPtrs \ live # {}
        /\ Len(qualifyHost(host)) <= MaxHostLen
        /\ srvRecords' = done.recs
        /\ srvMem' = Collect(done.mem, live \cup {srv}, FreeSRV)
        /\ regSRV' = [regSRV EXCEPT ![<<service, protocol>>] = "set"]
        /\ err' = Nil
        /\ UNCHANGED <<quiet, domain, aRecords, ipMem, recsA, recsSRV,
                       request, reply, regA>>

(* The caller passes a record it registered before and still holds.        *)
SetSRVAgain(service, protocol, srv) ==
    LET done == ServerSetSRV(srvRecords, srvMem, service, protocol, srv)
    IN  /\ srv \in Range(srvRecords)
        /\ Len(qualifyHost(srvMem[srv].Host)) <= MaxHostLen
        /\ srvRecords' = done.recs
        /\ srvMem' = Collect(done.mem,
                             Range(srvRecords') \cup Range(recsSRV.m), FreeSRV)
        /\ regSRV' = [regSRV EXCEPT ![<<service, protocol>>] = "set"]
        /\ err' = Nil
        /\ UNCHANGED <<quiet, domain, aRecords, ipMem, recsA, recsSRV,
                       request, reply, regA>>

(* Server.DeleteSRV(service, protocol)                                     *)
DeleteSRV(service, protocol) ==
    /\ srvRecords' = Map_DeleteSRV(srvRecords, qualifySrv(service, protocol))
    /\ srvMem' = Collect(srvMem, Range(srvRecords') \cup Range(recsSRV.m),
                         FreeSRV)
    /\ regSRV' = [regSRV EXCEPT ![<<service, protocol>>] =
                      IF @ = "set" THEN "deleted" ELSE @]
    /\ err' = Nil
    /\ UNCHANGED <<quiet, domain, aRecords, ipMem, recsA, recsSRV, request,
                   reply, regA>>

(* recs, err := ListSRV()                                                  *)
ListSRV ==
    LET listed == Map_ListSRV(srvRecords, srvMem, FreshFor(srvRecords))
    IN  /\ Cardinality(SrvPtrs \ Range(srvRecords))
               >= Cardinality(DOMAIN srvRecords)
        /\ recsSRV' = Listing(listed.tmp)
        /\ srvMem' = Collect(listed.mem,
                             Range(srvRecords) \cup Range(recsSRV'.m), FreeSRV)
        /\ err' = Nil
        /\ UNCHANGED <<quiet, domain, aRecords, srvRecords, ipMem, recsA,
                       request, reply, regA, regSRV>>

(* The caller's statements on a listing it holds:                          *)
(* recs[name] = &db.SRVRecord{port, host}                                  *)
RecsSRVPut(name, port, host) ==
    LET live == Range(srvRecords) \cup Range(MapDelete(recsSRV.m, name))
        p == NewPtr(SrvPtrs, live)
    IN  /\ recsSRV.taken
        /\ SrvPtrs \ live # {}
        /\ recsSRV' = Listing(MapPut(recsSRV.m, name, p))
        /\ srvMem' = Collect([srvMem EXCEPT ![p] = SRVRecord(port, host)],
                             live \cup {p}, FreeSRV)
        /\ UNCHANGED <<quiet, err, domain, aRecords, srvRecords, ipMem,
                       recsA, request, reply, regA, regSRV>>

(* recs[name].Port = port                                                  *)
RecsSRVWritePort(name, port) ==
    /\ name \in DOMAIN recsSRV.m
    /\ srvMem' = [srvMem EXCEPT ![recsSRV.m[name]].Port = port]
    /\ UNCHANGED <<quiet, err, domain, aRecords, srvRecords, ipMem, recsA,
                   recsSRV, request, reply, regA, regSRV>>

(* recs[name].Host = host                                                  *)
RecsSRVWriteHost(name, host) ==
    /\ name \in DOMAIN recsSRV.m
    /\ srvMem' = [srvMem EXCEPT ![recsSRV.m[name]].Host = host]
    /\ UNCHANGED <<quiet, err, domain, aRecords, srvRecords, ipMem, recsA,
                   recsSRV, request, reply, regA, regSRV>>

---------------------------------------------------------------------------
(* Server.ServeDNS(w, r)                                                   *)

ServeDNS(r) ==
    /\ request' = r
    /\ reply' = Serve(r)
    /\ UNCHANGED <<quiet, err, domain, aRecords, srvRecords, ipMem, srvMem,
                   recsA, recsSRV, regA, regSRV>>

---------------------------------------------------------------------------

CallerWritesRecsA ==
    \/ \E name \in AKeys, ip \in IPs : RecsAPut(name, ip)
    \/ \E name \in AKeys : RecsADelete(name)
    \/ \E name \in AKeys, w \in ByteWrites : RecsAWriteByte(name, w[1], w[2])

CallerWritesRecsSRV ==
    \/ \E name \in SRVKeys, port \in ListPorts, host \in ListHosts :
          RecsSRVPut(name, port, host)
    \/ \E name \in SRVKeys, port \in ListPorts : RecsSRVWritePort(name, port)
    \/ \E name \in SRVKeys, host \in ListHosts : RecsSRVWriteHost(name, host)

AWrites ==
    \/ \E host \in Hosts, ip \in IPs : SetA(host, ip)
    \/ \E host \in Hosts : DeleteA(host)

SRVWrites ==
    \/ \E sp \in SvcProtos, port \in Ports, host \in Hosts :
          SetSRV(sp[1], sp[2], port, host)
    \/ \E sp \in SvcProtos, srv \in SrvPtrs : SetSRVAgain(sp[1], sp[2], srv)
    \/ \E sp \in SvcProtos : DeleteSRV(sp[1], sp[2])

StoreWrites == AWrites \/ SRVWrites

(* The store and the resolver: every administrative write, and queries of  *)
(* one question.                                                           *)
Next ==
    \/ StoreWrites
    \/ \E r \in SingleRequests : ServeDNS(r)

Spec == Init /\ [][Next]_vars

---------------------------------------------------------------------------
(* The store and the listings a caller holds.  The two mappings share no   *)
(* state (map.go keeps a map and a lock for each), so a behaviour works on *)
(* one record kind: A steps are taken while nothing has happened on the    *)
(* SRV side, and SRV steps while nothing has happened on the A side.       *)

APristine ==
    aRecords = EmptyMap /\ ~recsA.taken /\ \A h \in Hosts : regA[h] = "unset"

SRVPristine ==
    /\ srvRecords = EmptyMap
    /\ ~recsSRV.taken
    /\ \A sp \in SvcProtos : regSRV[sp] = "unset"

NextLists ==
    \/ SRVPristine /\ (AWrites \/ ListA \/ CallerWritesRecsA)
    \/ APristine /\ (SRVWrites \/ ListSRV \/ CallerWritesRecsSRV)

SpecLists == Init /\ [][NextLists]_vars

---------------------------------------------------------------------------
(* The resolver as a function of the store: the store is any content the   *)
(* administrative calls can build from records the caller has just made    *)
(* (one object per key), and every query of up to MaxQuestions questions   *)
(* is served on it.                                                        *)

PartialMaps(keys, vals) == UNION {[d -> vals] : d \in SUBSET keys}

(* The key at each address: the store built key by key.                    *)
AddrOf(keys) ==
    CHOOSE f \in [keys -> 1..Cardinality(keys)] :
        \A a, b \in keys : a # b => f[a] # f[b]

ServeStore ==
    /\ domain = NewWithDB(DomainArg)
    /\ \E am \in PartialMaps(AKeys, IPs),
          sm \in PartialMaps(SRVKeys, [Port : Ports, Host : Hosts]) :
          LET aAt == AddrOf(DOMAIN am)
              sAt == AddrOf(DOMAIN sm)
          IN  /\ aRecords = [k \in DOMAIN am |-> aAt[k]]
              /\ ipMem = [p \in IPPtrs |->
                            IF \E k \in DOMAIN am : aAt[k] = p
                            THEN am[CHOOSE k \in DOMAIN am : aAt[k] = p]
                            ELSE FreeIP]
              /\ srvRecords = [k \in DOMAIN sm |-> sAt[k]]
              /\ srvMem = [p \in SrvPtrs |->
                             IF \E k \in DOMAIN sm : sAt[k] = p
                             THEN LET rec == sm[CHOOSE k \in DOMAIN sm : sAt[k] = p]
                                  IN  SRVRecord(rec.Port, qualifyHost(rec.Host))
                             ELSE FreeSRV]
    /\ recsA = NoListing
    /\ recsSRV = NoListing
    /\ request = <<>>
    /\ reply = NewMsg
    /\ regA = [h \in Hosts |-> IF qualifyHost(h) \in DOMAIN aRecords
                                THEN "set" ELSE "unset"]
    /\ regSRV = [sp \in SvcProtos |->
                   IF qualifySrv(sp[1], sp[2]) \in DOMAIN srvRecords
                   THEN "set" ELSE "unset"]
    /\ InitConc
    /\ NotListening
    /\ err = Nil

(* The DB is Map.                                                          *)
InitServe == ServeStore /\ dbFault = {}

(* One query is served in a behaviour: ServeDNS keeps no state, so serving *)
(* a second one starts from the same store.                                *)
NextServe == ~reply.Response /\ \E r \in Requests : ServeDNS(r)

SpecServe == InitServe /\ [][NextServe]_vars

(* The resolver on a DB that fails on some names.                          *)
FaultNames == {qualifyHost("test"), qualifySrv("test", "tcp")}

InitFaulty == ServeStore /\ dbFault \in SUBSET FaultNames

SpecFaulty == InitFaulty /\ [][NextServe]_vars

---------------------------------------------------------------------------
(* The listener: Listen and Close.                                         *)

ErrListen == "listen error"
ErrShutdown == "shutdown error"

(* The address of the test's listenSpec, "127.0.0.1:5300".                 *)
ListenAddr == [IP |-> <<127, 0, 0, 1>>, Port |-> 5300]

(* Server.Listen(listenSpec).  When ListenPacket fails, Listen returns     *)
(* the error and has written nothing.  Otherwise it sets server,           *)
(* listenIP and listenPort and blocks in ActivateAndServe.                 *)
Listen(ok) ==
    /\ IF ok
       THEN /\ server = Nil
            /\ server' = "dns.Server"
            /\ listenIP' = ListenAddr.IP
            /\ listenPort' = ListenAddr.Port
            /\ err' = err
       ELSE /\ err' = ErrListen
            /\ UNCHANGED <<server, listenIP, listenPort>>
    /\ UNCHANGED <<conc, closes, dbFault, domain, aRecords, srvRecords,
                   ipMem, srvMem, recsA, recsSRV, request, reply, regA,
                   regSRV>>

(* What Shutdown of the dns.Server may return: nil, or an error when the   *)
(* server is not serving (any more).                                       *)
ShutdownResults == {Nil, ErrShutdown}

(* Close that fails on a server that is not listening.                     *)
CloseResults_NotStarted(srv) == {ErrShutdown}

(* What Close returns: the result of Shutdown if there is a dns.Server,    *)
(* nil otherwise.                                                          *)
CloseResults(srv) == IF srv # Nil THEN ShutdownResults ELSE {Nil}

(* Server.Close()                                                          *)
Close ==
    /\ closes < MaxCloses
    /\ closes' = closes + 1
    /\ err' \in CloseResults(server)
    /\ UNCHANGED <<conc, server, listenIP, listenPort, dbFault, domain,
                   aRecords, srvRecords, ipMem, srvMem, recsA, recsSRV,
                   request, reply, regA, regSRV>>

(* Administrative input the specification calls malformed.                 *)
MalformedHosts == {""}

(* The administrative calls on the server.                                 *)
NextAdmin ==
    \/ StoreWrites
    \/ \E sp \in SvcProtos, port \in Ports, host \in MalformedHosts :
          SetSRV(sp[1], sp[2], port, host)
    \/ \E ok \in BOOLEAN : Listen(ok)
    \/ Close

SpecAdmin == Init /\ [][NextAdmin]_vars

(* Servers constructed with either spelling of the domain.                 *)
DomainArgs == {DomainArg, DomainArg \o "."}

InitDomain == \E d \in DomainArgs : Constructed(d)

SpecDomain == InitDomain /\ [][StoreWrites]_vars

---------------------------------------------------------------------------
(* Goroutines calling into one server.  A step is one statement of the    *)
(* call a goroutine is in: taking or releasing a lock of the Map, the map  *)
(* statement between the two, and each access to a record outside a lock.  *)

(* What no statement of these calls writes: the domain, and the listings a *)
(* caller holds, with their history.                                       *)
adminVars ==
    <<domain, recsA, recsSRV, regA, regSRV, server, listenIP, listenPort,
      closes, err, dbFault>>

(* The same, and the count of the queries.                                 *)
callerVars == <<adminVars, served>>

(* The slices and records in use: those the maps hold and those a call in  *)
(* progress holds.                                                         *)
HeldIP(fr) ==
    ({fr[q].ptr : q \in {q \in Procs : fr[q].op \in {"SetA", "QueryA"}}}
         \ {0})
    \cup UNION {{fr[q].answers[i].A :
                    i \in {i \in 1..Len(fr[q].answers) :
                               fr[q].answers[i].Hdr.Rrtype = TypeA}} :
                q \in Procs}
HeldSRV(fr) ==
    {fr[q].ptr : q \in {q \in Procs : fr[q].op \in {"SetSRV", "QuerySRV"}}}
        \ {0}

LiveIP(recs, fr) == Range(recs) \cup HeldIP(fr)
LiveSRV(recs, fr) == Range(recs) \cup HeldSRV(fr)

(* Goroutine p moves on to statement to, its locals becoming fr.           *)
Goto(p, to, fr) ==
    /\ pc' = [pc EXCEPT ![p] = to]
    /\ frame' = [frame EXCEPT ![p] = fr]

(* Goroutine p returns from its call.                                      *)
Return(p) == Goto(p, "idle", NoFrame)

(* Goroutine p makes a call, its first statement being first.              *)
Call(p, first, fr) ==
    /\ pc[p] = "idle"
    /\ started < MaxCalls
    /\ started' = started + 1
    /\ Goto(p, first, fr)

(* Server.SetA(host, ip) -> Map.SetA(host.domain, ip)                      *)
CallSetA(p, host, ip) ==
    LET key == qualifyHost(host)
        live == LiveIP(aRecords, frame)
        ptr == NewPtr(IPPtrs, live)
    IN  /\ IPPtrs \ live # {}
        /\ Call(p, "SetA_Lock",
                [NoFrame EXCEPT !.op = "SetA", !.key = key, !.ptr = ptr,
                                !.ip = ip])
        /\ ipMem' = [ipMem EXCEPT ![ptr] = ip]
        /\ registered' = [registered EXCEPT ![key] = @ \cup {ip}]
        /\ UNCHANGED <<callerVars, aRecords, srvRecords, srvMem, request,
                       reply, aMutex, srvMutex, lastLocked>>

(* m.aMutex.Lock()                                                         *)
SetA_Lock(p) ==
    /\ pc[p] = "SetA_Lock"
    /\ CanLock(aMutex)
    /\ aMutex' = Lock(aMutex, p)
    /\ lastLocked' = [lastLocked EXCEPT ![frame[p].key] = {frame[p].ip}]
    /\ Goto(p, "SetA_Write", frame[p])
    /\ UNCHANGED <<callerVars, aRecords, srvRecords, ipMem, srvMem, request,
                   reply, srvMutex, started, registered>>

(* m.aRecords[host] = ip                                                   *)
SetA_Write(p) ==
    /\ pc[p] = "SetA_Write"
    /\ aRecords' = Map_SetA(aRecords, frame[p].key, frame[p].ptr)
    /\ ipMem' = Collect(ipMem, LiveIP(aRecords', frame), FreeIP)
    /\ Goto(p, "SetA_Unlock", frame[p])
    /\ UNCHANGED <<callerVars, srvRecords, srvMem, request, reply, aMutex,
                   srvMutex, started, registered, lastLocked>>

(* m.aMutex.Unlock(); return nil                                           *)
SetA_Unlock(p) ==
    /\ pc[p] = "SetA_Unlock"
    /\ aMutex' = Unlock(aMutex, p)
    /\ Return(p)
    /\ UNCHANGED <<callerVars, aRecords, srvRecords, ipMem, srvMem, request,
                   reply, srvMutex, started, registered, lastLocked>>

(* Server.DeleteA(host) -> Map.DeleteA(host.domain)                        *)
CallDeleteA(p, host) ==
    LET key == qualifyHost(host)
    IN  /\ Call(p, "DeleteA_Lock",
                [NoFrame EXCEPT !.op = "DeleteA", !.key = key])
        /\ registered' = [registered EXCEPT ![key] = @ \cup {FreeIP}]
        /\ UNCHANGED <<callerVars, aRecords, srvRecords, ipMem, srvMem,
                       request, reply, aMutex, srvMutex, lastLocked>>

(* m.aMutex.Lock()                                                         *)
DeleteA_Lock(p) ==
    /\ pc[p] = "DeleteA_Lock"
    /\ CanLock(aMutex)
    /\ aMutex' = Lock(aMutex, p)
    /\ lastLocked' = [lastLocked EXCEPT ![frame[p].key] = {FreeIP}]
    /\ Goto(p, "DeleteA_Delete", frame[p])
    /\ UNCHANGED <<callerVars, aRecords, srvRecords, ipMem, srvMem, request,
                   reply, srvMutex, started, registered>>

(* delete(m.aRecords, host)                                                *)
DeleteA_Delete(p) ==
    /\ pc[p] = "DeleteA_Delete"
    /\ aRecords' = Map_DeleteA(aRecords, frame[p].key)
    /\ ipMem' = Collect(ipMem, LiveIP(aRecords', frame), FreeIP)
    /\ Goto(p, "DeleteA_Unlock", frame[p])
    /\ UNCHANGED <<callerVars, srvRecords, srvMem, request, reply, aMutex,
                   srvMutex, started, registered, lastLocked>>

(* m.aMutex.Unlock(); return nil                                           *)
DeleteA_Unlock(p) ==
    /\ pc[p] = "DeleteA_Unlock"
    /\ aMutex' = Unlock(aMutex, p)
    /\ Return(p)
    /\ UNCHANGED <<callerVars, aRecords, srvRecords, ipMem, srvMem, request,
                   reply, srvMutex, started, registered, lastLocked>>

(* A string header read while another goroutine stores one: the pointer   *)
(* of one value with the length of the other.                              *)
TornHost == "<torn>"

(* The goroutines, other than p, between reading srv.Host and having       *)
(* stored the qualified host in it (qualifySrvHost).                       *)
HostWriters(srv, p) ==
    {q \in Procs \ {p} : pc[q] = "SetSRV_WriteHost" /\ frame[q].ptr = srv}

(* What a read of srv.Host by p may return.  No lock orders it with the    *)
(* store of qualifySrvHost: with a store in progress, the read is a data   *)
(* race and returns the old host, the new one, or a torn header.           *)
HostRead(srv, p) ==
    {srvMem[srv].Host}
        \cup {frame[q].host : q \in HostWriters(srv, p)}
        \cup (IF HostWriters(srv, p) # {} THEN {TornHost} ELSE {})

(* What a store to srv.Host by p may leave: two stores racing may leave a  *)
(* torn header.                                                            *)
HostStored(srv, p) ==
    {frame[p].host} \cup (IF HostWriters(srv, p) # {} THEN {TornHost} ELSE {})

(* srv.Host + "." + domain, of a host as read.                             *)
Qualified(h) == IF h = TornHost THEN TornHost ELSE qualifyHost(h)

(* Server.SetSRV(service, protocol, srv), srv a record the caller has just *)
(* built.                                                                  *)
CallSetSRV(p, service, protocol, port, host) ==
    LET key == qualifySrv(service, protocol)
        live == LiveSRV(srvRecords, frame)
        srv == NewPtr(SrvPtrs, live)
    IN  /\ SrvPtrs \ live # {}
        /\ Call(p, "SetSRV_Qualify",
                [NoFrame EXCEPT !.op = "SetSRV", !.key = key, !.ptr = srv,
                                !.rec = SRVRecord(port, qualifyHost(host))])
        /\ srvMem' = [srvMem EXCEPT ![srv] = SRVRecord(port, host)]
        /\ registered' = [registered EXCEPT ![key] =
                              @ \cup {SRVRecord(port, qualifyHost(host))}]
        /\ UNCHANGED <<callerVars, aRecords, srvRecords, ipMem, request,
                       reply, aMutex, srvMutex, lastLocked>>

(* Server.SetSRV(service, protocol, srv), srv a record the caller holds    *)
(* from a call it has made or another goroutine is making.                 *)
CallSetSRVAgain(p, service, protocol, srv) ==
    LET key == qualifySrv(service, protocol)
        rec == SRVRecord(srvMem[srv].Port, qualifyHost(srvMem[srv].Host))
    IN  /\ srv \in Range(srvRecords)
                   \cup {frame[q].ptr : q \in {q \in Procs :
                                                   frame[q].op = "SetSRV"}}
        /\ srvMem[srv].Host # TornHost
        /\ Len(rec.Host) <= MaxHostLen
        /\ Call(p, "SetSRV_Qualify",
                [NoFrame EXCEPT !.op = "SetSRV", !.key = key, !.ptr = srv,
                                !.rec = rec])
        /\ registered' = [registered EXCEPT ![key] = @ \cup {rec}]
        /\ UNCHANGED <<callerVars, aRecords, srvRecords, ipMem, srvMem,
                       request, reply, aMutex, srvMutex, lastLocked>>

(* qualifySrvHost, the right-hand side: s.qualifyHost(srv.Host)            *)
SetSRV_Qualify(p) ==
    /\ pc[p] = "SetSRV_Qualify"
    /\ \E h \in HostRead(frame[p].ptr, p) :
          Goto(p, "SetSRV_WriteHost", [frame[p] EXCEPT !.host = Qualified(h)])
    /\ UNCHANGED <<callerVars, aRecords, srvRecords, ipMem, srvMem, request,
                   reply, aMutex, srvMutex, started, registered, lastLocked>>

(* qualifySrvHost, the assignment: srv.Host = ...                          *)
SetSRV_WriteHost(p) ==
    /\ pc[p] = "SetSRV_WriteHost"
    /\ \E h \in HostStored(frame[p].ptr, p) :
          srvMem' = [srvMem EXCEPT ![frame[p].ptr].Host = h]
    /\ Goto(p, "SetSRV_Lock", frame[p])
    /\ UNCHANGED <<callerVars, aRecords, srvRecords, ipMem, request, reply,
                   aMutex, srvMutex, started, registered, lastLocked>>

(* Map.SetSRV: m.srvMutex.Lock()                                           *)
SetSRV_Lock(p) ==
    /\ pc[p] = "SetSRV_Lock"
    /\ CanLock(srvMutex)
    /\ srvMutex' = Lock(srvMutex, p)
    /\ lastLocked' = [lastLocked EXCEPT ![frame[p].key] = {frame[p].rec}]
    /\ Goto(p, "SetSRV_Write", frame[p])
    /\ UNCHANGED <<callerVars, aRecords, srvRecords, ipMem, srvMem, request,
                   reply, aMutex, started, registered>>

(* m.srvRecords[spec] = srv                                                *)
SetSRV_Write(p) ==
    /\ pc[p] = "SetSRV_Write"
    /\ srvRecords' = Map_SetSRV(srvRecords, frame[p].key, frame[p].ptr)
    /\ srvMem' = Collect(srvMem, LiveSRV(srvRecords', frame), FreeSRV)
    /\ Goto(p, "SetSRV_Unlock", frame[p])
    /\ UNCHANGED <<callerVars, aRecords, ipMem, request, reply, aMutex,
                   srvMutex, started, registered, lastLocked>>

(* m.srvMutex.Unlock(); return nil                                         *)
SetSRV_Unlock(p) ==
    /\ pc[p] = "SetSRV_Unlock"
    /\ srvMutex' = Unlock(srvMutex, p)
    /\ Return(p)
    /\ UNCHANGED <<callerVars, aRecords, srvRecords, ipMem, srvMem, request,
                   reply, aMutex, started, registered, lastLocked>>

(* Server.DeleteSRV(service, protocol) -> Map.DeleteSRV(spec)              *)
CallDeleteSRV(p, service, protocol) ==
    LET key == qualifySrv(service, protocol)
    IN  /\ Call(p, "DeleteSRV_Lock",
                [NoFrame EXCEPT !.op = "DeleteSRV", !.key = key])
        /\ registered' = [registered EXCEPT ![key] = @ \cup {FreeSRV}]
        /\ UNCHANGED <<callerVars, aRecords, srvRecords, ipMem, srvMem,
                       request, reply, aMutex, srvMutex, lastLocked>>

(* m.srvMutex.Lock()                                                       *)
DeleteSRV_Lock(p) ==
    /\ pc[p] = "DeleteSRV_Lock"
    /\ CanLock(srvMutex)
    /\ srvMutex' = Lock(srvMutex, p)
    /\ lastLocked' = [lastLocked EXCEPT ![frame[p].key] = {FreeSRV}]
    /\ Goto(p, "DeleteSRV_Delete", frame[p])
    /\ UNCHANGED <<callerVars, aRecords, srvRecords, ipMem, srvMem, request,
                   reply, aMutex, started, registered>>

(* delete(m.srvRecords, spec)                                              *)
DeleteSRV_Delete(p) ==
    /\ pc[p] = "DeleteSRV_Delete"
    /\ srvRecords' = Map_DeleteSRV(srvRecords, frame[p].key)
    /\ srvMem' = Collect(srvMem, LiveSRV(srvRecords', frame), FreeSRV)
    /\ Goto(p, "DeleteSRV_Unlock", frame[p])
    /\ UNCHANGED <<callerVars, aRecords, ipMem, request, reply, aMutex,
                   srvMutex, started, registered, lastLocked>>

(* m.srvMutex.Unlock(); return nil                                         *)
DeleteSRV_Unlock(p) ==
    /\ pc[p] = "DeleteSRV_Unlock"
    /\ srvMutex' = Unlock(srvMutex, p)
    /\ Return(p)
    /\ UNCHANGED <<callerVars, aRecords, srvRecords, ipMem, srvMem, request,
                   reply, aMutex, started, registered, lastLocked>>

(* The queries the goroutines send: one question for a name and a type    *)
(* the server keeps records of, or one question of each type.              *)
ConcQuestions ==
    [Name : AKeys, Qtype : {TypeA}] \cup [Name : SRVKeys, Qtype : {TypeSRV}]

ConcRequests ==
    LET qa == [Name |-> qualifyHost("test"), Qtype |-> TypeA]
        qs == [Name |-> qualifySrv("test", "tcp"), Qtype |-> TypeSRV]
    IN  {<<q>> : q \in ConcQuestions} \cup {<<qa, qs>>, <<qs, qa>>}

(* The loop of ServeDNS, at question fr.i: past the last question the      *)
(* reply is built; otherwise the switch calls GetA or GetSRV with the      *)
(* name.  The statement the goroutine goes to, and its locals.             *)
Dispatch(fr) ==
    IF fr.i > Len(fr.r)
    THEN [pc |-> "ServeDNS_Write", fr |-> fr]
    ELSE [pc |-> IF fr.r[fr.i].Qtype = TypeA THEN "GetA_RLock"
                 ELSE "GetSRV_RLock",
          fr |-> [fr EXCEPT !.op = IF fr.r[fr.i].Qtype = TypeA THEN "QueryA"
                                   ELSE "QuerySRV",
                            !.key = fr.r[fr.i].Name,
                            !.ptr = 0,
                            !.found = FALSE]]

(* answers = append(answers, record) for the records of the question, and  *)
(* on to the next question.                                                *)
Advance(fr, records) ==
    Dispatch([fr EXCEPT !.answers = @ \o records, !.i = @ + 1])

(* Server.ServeDNS(w, r)                                                   *)
CallServeDNS(p, r) ==
    LET first == Dispatch([NoFrame EXCEPT !.r = r, !.i = 1])
    IN  /\ Call(p, first.pc, first.fr)
        /\ served' = [served EXCEPT !.asked = @ + 1]
        /\ UNCHANGED <<adminVars, aRecords, srvRecords, ipMem, srvMem,
                       request, reply, aMutex, srvMutex, registered,
                       lastLocked>>

(* Map.GetA: m.aMutex.RLock()                                              *)
GetA_RLock(p) ==
    /\ pc[p] = "GetA_RLock"
    /\ CanRLock(aMutex)
    /\ aMutex' = RLock(aMutex, p)
    /\ Goto(p, "GetA_Read", frame[p])
    /\ UNCHANGED <<callerVars, aRecords, srvRecords, ipMem, srvMem, request,
                   reply, srvMutex, started, registered, lastLocked>>

(* val, ok := m.aRecords[fqdn]                                             *)
GetA_Read(p) ==
    LET got == Map_GetA(aRecords, frame[p].key)
    IN  /\ pc[p] = "GetA_Read"
        /\ Goto(p, "GetA_RUnlock",
                [frame[p] EXCEPT !.found = (got.err = Nil),
                                 !.ptr = IF got.err = Nil THEN got.val ELSE 0])
        /\ UNCHANGED <<callerVars, aRecords, srvRecords, ipMem, srvMem,
                       request, reply, aMutex, srvMutex, started, registered,
                       lastLocked>>

(* The deferred m.aMutex.RUnlock(), at the return of Map.GetA; Server.GetA *)
(* then builds the record from the name and the slice, or returns nil.     *)
GetA_RUnlock(p) ==
    LET records ==
            IF frame[p].found
            THEN << [Hdr |-> RR_Header(frame[p].key, TypeA),
                     A |-> frame[p].ptr] >>
            ELSE <<>>
        next == Advance(frame[p], records)
    IN  /\ pc[p] = "GetA_RUnlock"
        /\ aMutex' = RUnlock(aMutex, p)
        /\ Goto(p, next.pc, next.fr)
        /\ UNCHANGED <<callerVars, aRecords, srvRecords, ipMem, srvMem,
                       request, reply, srvMutex, started, registered,
                       lastLocked>>

(* Map.GetSRV: m.srvMutex.RLock()                                          *)
GetSRV_RLock(p) ==
    /\ pc[p] = "GetSRV_RLock"
    /\ CanRLock(srvMutex)
    /\ srvMutex' = RLock(srvMutex, p)
    /\ Goto(p, "GetSRV_Read", frame[p])
    /\ UNCHANGED <<callerVars, aRecords, srvRecords, ipMem, srvMem, request,
                   reply, aMutex, started, registered, lastLocked>>

(* rec, ok := m.srvRecords[spec]                                           *)
GetSRV_Read(p) ==
    LET got == Map_GetSRV(srvRecords, frame[p].key)
    IN  /\ pc[p] = "GetSRV_Read"
        /\ Goto(p, "GetSRV_RUnlock",
                [frame[p] EXCEPT !.found = (got.err = Nil),
                                 !.ptr = IF got.err = Nil THEN got.srv ELSE 0])
        /\ UNCHANGED <<callerVars, aRecords, srvRecords, ipMem, srvMem,
                       request, reply, aMutex, srvMutex, started, registered,
                       lastLocked>>

(* The deferred m.srvMutex.RUnlock(), at the return of Map.GetSRV: with a  *)
(* record, Server.GetSRV goes on to read it; without, it returns nil.      *)
GetSRV_RUnlock(p) ==
    LET next == Advance(frame[p], <<>>)
    IN  /\ pc[p] = "GetSRV_RUnlock"
        /\ srvMutex' = RUnlock(srvMutex, p)
        /\ IF frame[p].found
           THEN Goto(p, "GetSRV_Fields", frame[p])
           ELSE Goto(p, next.pc, next.fr)
        /\ UNCHANGED <<callerVars, aRecords, srvRecords, ipMem, srvMem,
                       request, reply, aMutex, started, registered,
                       lastLocked>>

(* Server.GetSRV, the record it synthesizes: Port: srv.Port, Target:       *)
(* srv.Host.  The port of a record is written when the record is built     *)
(* and never after.                                                        *)
GetSRV_Fields(p) ==
    /\ pc[p] = "GetSRV_Fields"
    /\ \E h \in HostRead(frame[p].ptr, p) :
          LET read == [frame[p] EXCEPT !.port = srvMem[frame[p].ptr].Port,
                                       !.host = h]
              next == Advance(read,
                              << [Hdr |-> RR_Header(read.key, TypeSRV),
                                  Priority |-> 0, Weight |-> 0,
                                  Port |-> read.port, Target |-> read.host] >>)
          IN  Goto(p, next.pc, next.fr)
    /\ UNCHANGED <<callerVars, aRecords, srvRecords, ipMem, srvMem, request,
                   reply, aMutex, srvMutex, started, registered, lastLocked>>

(* ServeDNS, from the end of the loop: the reply is built and written.     *)
ServeDNS_Write(p) ==
    /\ pc[p] = "ServeDNS_Write"
    /\ request' = frame[p].r
    /\ reply' = WriteMsg(BuildReply(frame[p].answers), ipMem)
    /\ served' = [served EXCEPT !.answered = @ + 1]
    /\ Return(p)
    /\ ipMem' = Collect(ipMem, LiveIP(aRecords, frame'), FreeIP)
    /\ srvMem' = Collect(srvMem, LiveSRV(srvRecords, frame'), FreeSRV)
    /\ UNCHANGED <<adminVars, aRecords, srvRecords, aMutex, srvMutex,
                   started, registered, lastLocked>>

(* Map.ListA and Map.ListSRV, called through the DB: the listing is the    *)
(* goroutine's own, and is not looked at here.                              *)
CallListA(p) ==
    /\ Call(p, "ListA_RLock", [NoFrame EXCEPT !.op = "ListA"])
    /\ UNCHANGED <<callerVars, aRecords, srvRecords, ipMem, srvMem, request,
                   reply, aMutex, srvMutex, registered, lastLocked>>

(* m.aMutex.RLock()                                                        *)
ListA_RLock(p) ==
    /\ pc[p] = "ListA_RLock"
    /\ CanRLock(aMutex)
    /\ aMutex' = RLock(aMutex, p)
    /\ Goto(p, "ListA_RUnlock", frame[p])
    /\ UNCHANGED <<callerVars, aRecords, srvRecords, ipMem, srvMem, request,
                   reply, srvMutex, started, registered, lastLocked>>

(* the loop over m.aRecords, then the deferred m.aMutex.RUnlock()          *)
ListA_RUnlock(p) ==
    /\ pc[p] = "ListA_RUnlock"
    /\ aMutex' = RUnlock(aMutex, p)
    /\ Return(p)
    /\ UNCHANGED <<callerVars, aRecords, srvRecords, ipMem, srvMem, request,
                   reply, srvMutex, started, registered, lastLocked>>

CallListSRV(p) ==
    /\ Call(p, "ListSRV_RLock", [NoFrame EXCEPT !.op = "ListSRV"])
    /\ UNCHANGED <<callerVars, aRecords, srvRecords, ipMem, srvMem, request,
                   reply, aMutex, srvMutex, registered, lastLocked>>

(* m.srvMutex.RLock()                                                      *)
ListSRV_RLock(p) ==
    /\ pc[p] = "ListSRV_RLock"
    /\ CanRLock(srvMutex)
    /\ srvMutex' = RLock(srvMutex, p)
    /\ Goto(p, "ListSRV_RUnlock", frame[p])
    /\ UNCHANGED <<callerVars, aRecords, srvRecords, ipMem, srvMem, request,
                   reply, aMutex, started, registered, lastLocked>>

(* the loop over m.srvRecords, then the deferred m.srvMutex.RUnlock()      *)
ListSRV_RUnlock(p) ==
    /\ pc[p] = "ListSRV_RUnlock"
    /\ srvMutex' = RUnlock(srvMutex, p)
    /\ Return(p)
    /\ UNCHANGED <<callerVars, aRecords, srvRecords, ipMem, srvMem, request,
                   reply, aMutex, started, registered, lastLocked>>

---------------------------------------------------------------------------

Calls(p) ==
    \/ \E host \in Hosts, ip \in IPs : CallSetA(p, host, ip)
    \/ \E host \in Hosts : CallDeleteA(p, host)
    \/ \E sp \in SvcProtos, port \in Ports, host \in Hosts :
          CallSetSRV(p, sp[1], sp[2], port, host)
    \/ \E sp \in SvcProtos, srv \in SrvPtrs :
          CallSetSRVAgain(p, sp[1], sp[2], srv)
    \/ \E sp \in SvcProtos : CallDeleteSRV(p, sp[1], sp[2])
    \/ \E r \in ConcRequests : CallServeDNS(p, r)
    \/ CallListA(p)
    \/ CallListSRV(p)

ASteps(p) ==
    \/ SetA_Lock(p) \/ SetA_Write(p) \/ SetA_Unlock(p)
    \/ DeleteA_Lock(p) \/ DeleteA_Delete(p) \/ DeleteA_Unlock(p)
    \/ GetA_RLock(p) \/ GetA_Read(p) \/ GetA_RUnlock(p)
    \/ ListA_RLock(p) \/ ListA_RUnlock(p)

SRVSteps(p) ==
    \/ SetSRV_Qualify(p) \/ SetSRV_WriteHost(p)
    \/ SetSRV_Lock(p) \/ SetSRV_Write(p) \/ SetSRV_Unlock(p)
    \/ DeleteSRV_Lock(p) \/ DeleteSRV_Delete(p) \/ DeleteSRV_Unlock(p)
    \/ GetSRV_RLock(p) \/ GetSRV_Read(p) \/ GetSRV_RUnlock(p)
    \/ GetSRV_Fields(p)
    \/ ListSRV_RLock(p) \/ ListSRV_RUnlock(p)

(* The goroutines interleave statement by statement.                       *)
NextConc ==
    \E p \in Procs : Calls(p) \/ ASteps(p) \/ SRVSteps(p) \/ ServeDNS_Write(p)

SpecConc == Init /\ [][NextConc]_vars

(* A goroutine that can take its next statement is scheduled: the runtime  *)
(* runs every runnable goroutine, and a goroutine blocked on a mutex       *)
(* becomes runnable when the mutex is released.  Whether a caller makes a  *)
(* further call is up to the caller.                                       *)
Runs(p) == ASteps(p) \/ SRVSteps(p) \/ ServeDNS_Write(p)

(* The callers of the fair specification: every kind of call, on one name  *)
(* of each kind.  Whether a goroutine waits depends on the mutexes, which  *)
(* are per mapping, not per name.                                          *)
FairCalls(p) ==
    \/ \E ip \in IPs : CallSetA(p, "test", ip)
    \/ CallDeleteA(p, "test")
    \/ \E port \in Ports : CallSetSRV(p, "test", "tcp", port, "test")
    \/ \E srv \in SrvPtrs : CallSetSRVAgain(p, "test", "tcp", srv)
    \/ CallDeleteSRV(p, "test", "tcp")
    \/ \E r \in ConcRequests :
          /\ \A n \in 1..Len(r) :
                r[n].Name \in {qualifyHost("test"), qualifySrv("test", "tcp")}
          /\ CallServeDNS(p, r)
    \/ CallListA(p)
    \/ CallListSRV(p)

NextConcFair == \E p \in Procs : FairCalls(p) \/ Runs(p)

SpecConcFair ==
    Init /\ [][NextConcFair]_vars /\ \A p \in Procs : WF_vars(Runs(p))

---------------------------------------------------------------------------
(* What the properties below speak of.                                     *)

QuestionA(name) == <<[Name |-> name, Qtype |-> TypeA]>>
QuestionSRV(name) == <<[Name |-> name, Qtype |-> TypeSRV]>>

(* The names as the specification writes them.                             *)
HostName(h) == h \o ".docker."
ServiceName(s, p) == "_" \o s \o "._" \o p \o ".docker."

(* The store as GetA, ListA, GetSRV and ListSRV show it: by value.         *)
StoreViewA == [k \in DOMAIN aRecords |-> ipMem[aRecords[k]]]
StoreViewSRV == [k \in DOMAIN srvRecords |-> srvMem[srvRecords[k]]]

(* The listings the caller holds, by value.                                *)
ListViewA == [k \in DOMAIN recsA.m |-> ipMem[recsA.m[k]]]
ListViewSRV == [k \in DOMAIN recsSRV.m |-> srvMem[recsSRV.m[k]]]

IsNegative(m) ==
    m.Response /\ m.Rcode = RcodeNameError /\ m.Answer = <<>>

---------------------------------------------------------------------------
(* C1: once SetA(h, a) has returned and until a later SetA or DeleteA on   *)
(* h, an A query for h.docker. has exactly one answer: address a, TTL 1,   *)
(* class INET, type A, owner name the queried name.  Stated on the steps:  *)
(* SetA(h, a) establishes that answer, and no step other than a SetA or a  *)
(* DeleteA on h changes the answer for a registered h.  (A step that       *)
(* leaves the A mapping and the addresses alone is neither.)               *)
C1_ARoundTrip ==
    [][\/ UNCHANGED <<aRecords, ipMem>>
       \/ \A h \in Hosts :
          /\ \A a \in IPs :
                SetA(h, a) =>
                    Serve(QuestionA(HostName(h)))'.Answer =
                        << [Hdr |-> [Name |-> HostName(h), Rrtype |-> TypeA,
                                     Class |-> ClassINET, Ttl |-> 1],
                            A |-> a] >>
          /\ (/\ regA[h] = "set"
              /\ ~DeleteA(h)
              /\ ~\E a \in IPs : SetA(h, a))
             => Serve(QuestionA(HostName(h)))' = Serve(QuestionA(HostName(h)))
      ]_vars

(* C2: after DeleteA(h) (DeleteSRV(s, p)) of a record that was set, and    *)
(* until it is set again, a query for that name alone has no answer and    *)
(* the response code name-error.                                           *)
C2_NegativeAfterDelete ==
    /\ \A h \in Hosts :
          regA[h] = "deleted" => IsNegative(Serve(QuestionA(HostName(h))))
    /\ \A sp \in SvcProtos :
          regSRV[sp] = "deleted" =>
              IsNegative(Serve(QuestionSRV(ServiceName(sp[1], sp[2]))))

(* A query for a deleted A record, and one for a deleted SRV record, have  *)
(* been answered negatively.                                               *)
C2_Witness ==
    /\ IsNegative(reply)
    /\ \/ \E h \in Hosts :
             regA[h] = "deleted" /\ request = QuestionA(HostName(h))
       \/ \E sp \in SvcProtos :
             /\ regSRV[sp] = "deleted"
             /\ request = QuestionSRV(ServiceName(sp[1], sp[2]))

(* The one answer an SRV query for (s, p) has after a registration with    *)
(* port and host.                                                          *)
SRVAnswer(s, p, port, host) ==
    << [Hdr |-> [Name |-> ServiceName(s, p), Rrtype |-> TypeSRV,
                 Class |-> ClassINET, Ttl |-> 1],
        Priority |-> 0, Weight |-> 0, Port |-> port,
        Target |-> host \o ".docker."] >>

(* C3: when SetSRV(service, protocol, {Port: p, Host: h}) returns, an SRV  *)
(* query for _service._protocol.docker. has exactly one answer: priority   *)
(* 0, weight 0, TTL 1, class INET, owner name the queried specifier, port  *)
(* p and target h.docker.  (A step that leaves the SRV mapping and the     *)
(* records alone is no SetSRV.)                                            *)
C3_SRVSynthesis ==
    [][\/ UNCHANGED <<srvRecords, srvMem>>
       \/ \A sp \in SvcProtos :
          /\ \A port \in Ports, host \in Hosts :
                SetSRV(sp[1], sp[2], port, host) =>
                    Serve(QuestionSRV(ServiceName(sp[1], sp[2])))'.Answer =
                        SRVAnswer(sp[1], sp[2], port, host)
          /\ \A srv \in SrvPtrs :
                SetSRVAgain(sp[1], sp[2], srv) =>
                    Serve(QuestionSRV(ServiceName(sp[1], sp[2])))'.Answer =
                        SRVAnswer(sp[1], sp[2], srvMem[srv].Port,
                                  srvMem[srv].Host)
      ]_vars

(* SetSRV("test", "tcp", {80, "test"}) was followed by a query for         *)
(* _test._tcp.docker., answered with port 80 and target test.docker.       *)
C3_Witness ==
    /\ regSRV[<<"test", "tcp">>] = "set"
    /\ request = QuestionSRV("_test._tcp.docker.")
    /\ reply.Response
    /\ reply.Answer = SRVAnswer("test", "tcp", 80, "test")

---------------------------------------------------------------------------
(* C4: after recs := ListA(), no statement of the caller on recs (adding,  *)
(* replacing or removing an entry, writing a byte of an address in it)     *)
(* changes what GetA and ListA return afterwards.                          *)
C4_ListAIsolation ==
    [][StoreViewA' = StoreViewA \/ ~CallerWritesRecsA]_vars

(* C5: after recs := ListSRV(), no statement of the caller on recs         *)
(* (replacing an entry, writing Port or Host of a record in it) changes    *)
(* what GetSRV, ListSRV or an SRV query return afterwards; and no record   *)
(* in the listing is an object the store holds.                            *)
C5_ListSRVIsolation ==
    [][/\ \/ /\ StoreViewSRV' = StoreViewSRV
             /\ \A k \in SRVKeys : Serve(QuestionSRV(k))' = Serve(QuestionSRV(k))
          \/ ~CallerWritesRecsSRV
       /\ Range(recsSRV'.m) \cap Range(srvRecords') = {}
      ]_vars

(* The caller has written Host of a listed record whose key the store      *)
(* holds: the store never holds an unqualified host.                       *)
C5_Witness ==
    \E k \in DOMAIN recsSRV.m \cap DOMAIN srvRecords :
        /\ srvMem[recsSRV.m[k]].Host \in ListHosts
        /\ srvMem[srvRecords[k]].Host \notin ListHosts

(* C6: a listing keeps the keys and values it was returned with, whatever  *)
(* SetA, DeleteA, SetSRV or DeleteSRV does to the store afterwards.        *)
C6_ListingIsSnapshot ==
    [][\/ ListViewA' = ListViewA /\ ListViewSRV' = ListViewSRV
       \/ ~StoreWrites
      ]_vars

(* A listing holds a key whose record has since been deleted from the      *)
(* store.                                                                  *)
C6_Witness ==
    \/ \E h \in Hosts :
          /\ regA[h] = "deleted"
          /\ HostName(h) \in DOMAIN recsA.m
          /\ ipMem[recsA.m[HostName(h)]] \in IPs
    \/ \E sp \in SvcProtos :
          /\ regSRV[sp] = "deleted"
          /\ ServiceName(sp[1], sp[2]) \in DOMAIN recsSRV.m
          /\ srvMem[recsSRV.m[ServiceName(sp[1], sp[2])]].Port \in Ports

---------------------------------------------------------------------------
(* A question produces an answer when its type is A or SRV and its name    *)
(* is, as written, a key of the mapping of that type.                      *)
Produces(q) ==
    \/ q.Qtype = TypeA /\ q.Name \in DOMAIN aRecords
    \/ q.Qtype = TypeSRV /\ q.Name \in DOMAIN srvRecords

Producing(r) == {i \in 1..Len(r) : Produces(r[i])}

(* The j-th question, in order, among those that produce an answer.        *)
NthProducing(r, j) ==
    CHOOSE i \in Producing(r) :
        Cardinality({x \in Producing(r) : x < i}) = j - 1

(* The record the store holds for a producing question.                    *)
RecordFor(q) ==
    IF q.Qtype = TypeA
    THEN [Hdr |-> [Name |-> q.Name, Rrtype |-> TypeA, Class |-> ClassINET,
                   Ttl |-> 1],
          A |-> StoreViewA[q.Name]]
    ELSE [Hdr |-> [Name |-> q.Name, Rrtype |-> TypeSRV, Class |-> ClassINET,
                   Ttl |-> 1],
          Priority |-> 0, Weight |-> 0,
          Port |-> StoreViewSRV[q.Name].Port,
          Target |-> StoreViewSRV[q.Name].Host]

(* C7: if no question produced an answer the reply has name-error, no      *)
(* answers and Authoritative unset; otherwise it has success,              *)
(* Authoritative set, RecursionAvailable unset and all the answers.        *)
(* Never name-error with answers, nor success without.                     *)
C7_ResponseCodePolicy ==
    reply.Response =>
        /\ Producing(request) = {} =>
              /\ reply.Rcode = RcodeNameError
              /\ reply.Answer = <<>>
              /\ ~reply.Authoritative
        /\ Producing(request) # {} =>
              /\ reply.Rcode = RcodeSuccess
              /\ reply.Authoritative
              /\ ~reply.RecursionAvailable
              /\ Len(reply.Answer) = Cardinality(Producing(request))
        /\ ~(reply.Rcode = RcodeNameError /\ reply.Answer # <<>>)
        /\ ~(reply.Rcode = RcodeSuccess /\ reply.Answer = <<>>)

(* Both outcomes have been written: this one is a success for a query of   *)
(* two questions of which one produced an answer.                          *)
C7_Witness ==
    /\ reply.Response
    /\ reply.Rcode = RcodeSuccess
    /\ Len(request) = 2
    /\ Len(reply.Answer) = 1

(* C8: the answer section is, in question order, one record for each       *)
(* question whose type is A or SRV and whose name is exactly a key of the  *)
(* store of that type; any other question adds nothing and hides nothing.  *)
C8_AnswerOrder ==
    reply.Response =>
        /\ Len(reply.Answer) = Cardinality(Producing(request))
        /\ \A j \in 1..Len(reply.Answer) :
              reply.Answer[j] = RecordFor(request[NthProducing(request, j)])

(* A query whose first question names test.docker (a prefix of the key     *)
(* test.docker.) and whose second names a key was answered with the one    *)
(* record of the second.                                                   *)
C8_Witness ==
    /\ reply.Response
    /\ Len(request) = 2
    /\ request[1] = [Name |-> "test.docker", Qtype |-> TypeA]
    /\ "test.docker." \in DOMAIN aRecords
    /\ Len(reply.Answer) = 1
    /\ reply.Answer[1].Hdr.Name = request[2].Name

---------------------------------------------------------------------------
(* Goroutines.                                                             *)

(* Every call made has returned.                                           *)
Quiescent == \A p \in Procs : pc[p] = "idle"

(* The answer section of a reply with the one A record a for k.            *)
OneA(k, a) == << [Hdr |-> RR_Header(k, TypeA), A |-> a] >>

(* The answer section of a reply with the one SRV record for k that a      *)
(* registration of rec gives.                                              *)
OneSRV(k, rec) ==
    << [Hdr |-> RR_Header(k, TypeSRV), Priority |-> 0, Weight |-> 0,
        Port |-> rec.Port, Target |-> rec.Host] >>

(* Once every call has returned, a host that SetA was called on with the   *)
(* one address a, and DeleteA never, resolves to a.                         *)
NoLostUpdateA ==
    Quiescent =>
        \A k \in AKeys : \A a \in IPs :
            registered[k] = {a} => Serve(QuestionA(k)).Answer = OneA(k, a)

(* Once every call has returned, a specifier that SetSRV was called on     *)
(* with the one record rec, and DeleteSRV never, resolves to rec.          *)
NoLostUpdateSRV ==
    Quiescent =>
        \A k \in SRVKeys : \A rec \in registered[k] :
            (registered[k] = {rec} /\ rec # FreeSRV)
                => Serve(QuestionSRV(k)).Answer = OneSRV(k, rec)

(* C9: no lost update under concurrency.  When Set calls on distinct keys  *)
(* run concurrently, in any interleaving, then after they have returned    *)
(* each key resolves to the value its Set call was made with: for SetA on  *)
(* distinct hosts, and for SetSRV on distinct specifiers.                  *)
C9_NoLostUpdate == NoLostUpdateA /\ NoLostUpdateSRV

(* Every answer written carries a value that one Set call on the queried   *)
(* key was made with.                                                      *)
WholeA ==
    \A k \in AKeys :
        (reply.Response /\ request = QuestionA(k) /\ Len(reply.Answer) > 0)
            => \E a \in registered[k] \cap IPs : reply.Answer = OneA(k, a)

WholeSRV ==
    \A k \in SRVKeys :
        (reply.Response /\ request = QuestionSRV(k) /\ Len(reply.Answer) > 0)
            => \E rec \in registered[k] \ {FreeSRV} :
                  reply.Answer = OneSRV(k, rec)

(* Once every call has returned, a key resolves to the value of the Set    *)
(* call that took the write lock last on it.                               *)
LastWriterWinsA ==
    Quiescent =>
        \A k \in AKeys : \A a \in IPs :
            lastLocked[k] = {a} => Serve(QuestionA(k)).Answer = OneA(k, a)

LastWriterWinsSRV ==
    Quiescent =>
        \A k \in SRVKeys : \A rec \in lastLocked[k] \ {FreeSRV} :
            Serve(QuestionSRV(k)).Answer = OneSRV(k, rec)

(* C10: no torn reads, last writer wins.  With queries for a key running   *)
(* concurrently with SetA or SetSRV on it, every answer carries a value    *)
(* one Set call registered as a whole (for SRV, port and target of the     *)
(* same registration, the target qualified once); and once all Sets have   *)
(* returned, the answers carry the value of the Set that took the write    *)
(* lock last.                                                              *)
C10_NoTornReads ==
    /\ WholeA /\ WholeSRV
    /\ LastWriterWinsA /\ LastWriterWinsSRV

---------------------------------------------------------------------------
(* The resolver on a failing DB.                                           *)

(* The questions that produce an answer and on whose name the DB does not  *)
(* fail.                                                                   *)
Healthy(r) == {i \in Producing(r) : r[i].Name \notin dbFault}

NthHealthy(r, j) ==
    CHOOSE i \in Healthy(r) : Cardinality({x \in Healthy(r) : x < i}) = j - 1

(* C14: backend faults degrade to a negative answer.  When the DB returns  *)
(* an error other than ErrNotFound for a question, ServeDNS appends no     *)
(* record for it, still answers the other questions, and still replies:    *)
(* the reply is the one it writes when the name is not in the store.       *)
C14_FaultIsNegative ==
    reply.Response =>
        /\ Len(reply.Answer) = Cardinality(Healthy(request))
        /\ \A j \in 1..Len(reply.Answer) :
              reply.Answer[j] = RecordFor(request[NthHealthy(request, j)])
        /\ Healthy(request) = {} => IsNegative(reply)
        /\ Healthy(request) # {} => reply.Rcode = RcodeSuccess

(* A query whose first question is for an A record the DB holds and fails  *)
(* on, and whose second names a key, was answered with the record of the   *)
(* second alone.                                                           *)
C14_Witness ==
    /\ reply.Response
    /\ Len(request) = 2
    /\ request[1].Qtype = TypeA
    /\ request[1].Name \in dbFault \cap DOMAIN aRecords
    /\ Len(reply.Answer) = 1
    /\ reply.Answer[1].Hdr.Name = request[2].Name

---------------------------------------------------------------------------
(* Administrative writes.                                                  *)

(* C11: Set is an idempotent upsert.  SetA(h, a) on a host registered with *)
(* a, and SetSRV(s, p, rec) with the record registered for (s, p), leave   *)
(* the store and the answers as they are and return no error.  (A step     *)
(* that leaves both mappings and the values alone changes nothing.)        *)
C11_IdempotentUpsert ==
    [][\/ UNCHANGED <<aRecords, ipMem, srvRecords, srvMem, err>>
       \/ /\ \A h \in Hosts : \A a \in IPs :
                (/\ qualifyHost(h) \in DOMAIN aRecords
                 /\ StoreViewA[qualifyHost(h)] = a
                 /\ SetA(h, a))
                => /\ StoreViewA' = StoreViewA
                   /\ Serve(QuestionA(qualifyHost(h)))'
                          = Serve(QuestionA(qualifyHost(h)))
                   /\ err' = Nil
          /\ \A sp \in SvcProtos : \A srv \in SrvPtrs :
                (/\ qualifySrv(sp[1], sp[2]) \in DOMAIN srvRecords
                 /\ srvRecords[qualifySrv(sp[1], sp[2])] = srv
                 /\ SetSRVAgain(sp[1], sp[2], srv))
                => /\ StoreViewSRV' = StoreViewSRV
                   /\ Serve(QuestionSRV(qualifySrv(sp[1], sp[2])))'
                          = Serve(QuestionSRV(qualifySrv(sp[1], sp[2])))
                   /\ err' = Nil
      ]_vars

(* C12: deleting an absent key is a no-op.  DeleteA(h) and DeleteSRV(s, p) *)
(* on a key that is not in the store return no error and leave both        *)
(* mappings and every value as they are.                                   *)
C12_DeleteAbsent ==
    [][\/ UNCHANGED <<aRecords, ipMem, srvRecords, srvMem, err>>
       \/ /\ \A h \in Hosts :
                (qualifyHost(h) \notin DOMAIN aRecords /\ DeleteA(h))
                => /\ UNCHANGED <<aRecords, ipMem, srvRecords, srvMem>>
                   /\ err' = Nil
          /\ \A sp \in SvcProtos :
                (/\ qualifySrv(sp[1], sp[2]) \notin DOMAIN srvRecords
                 /\ DeleteSRV(sp[1], sp[2]))
                => /\ UNCHANGED <<aRecords, ipMem, srvRecords, srvMem>>
                   /\ err' = Nil
      ]_vars

(* A deleted host and a deleted specifier are absent while another host    *)
(* and another specifier are registered: what a second delete works on.    *)
C12_Witness ==
    /\ \E h \in Hosts :
          /\ regA[h] = "deleted"
          /\ qualifyHost(h) \notin DOMAIN aRecords
          /\ aRecords # EmptyMap
    /\ \E sp \in SvcProtos :
          /\ regSRV[sp] = "deleted"
          /\ qualifySrv(sp[1], sp[2]) \notin DOMAIN srvRecords
          /\ srvRecords # EmptyMap
    /\ err = Nil

---------------------------------------------------------------------------
(* Question types.                                                         *)

IsSupported(q) == q.Qtype \in {TypeA, TypeSRV}

(* The questions of r of type A or SRV, in order.                          *)
Supported(r) == SelectSeq(r, IsSupported)

(* C15: unsupported question types are ignored.  A question whose type is  *)
(* neither A nor SRV contributes no answer and makes no lookup, even when  *)
(* its name is a key of the store: the reply is the one to the query       *)
(* without such questions, and name-error without answers when the query   *)
(* has no other question.                                                  *)
C15_UnsupportedIgnored ==
    reply.Response =>
        /\ reply = Serve(Supported(request))
        /\ \A i \in 1..Len(request) :
              ~IsSupported(request[i]) => LookupFor(request[i]) = <<>>
        /\ Supported(request) = <<>> => IsNegative(reply)

(* A query whose first question has another type and names a key of the   *)
(* A mapping, and whose second is answered, got the one record of the      *)
(* second.                                                                 *)
C15_Witness ==
    /\ reply.Response
    /\ Len(request) = 2
    /\ ~IsSupported(request[1])
    /\ request[1].Name \in DOMAIN aRecords
    /\ IsSupported(request[2])
    /\ Len(reply.Answer) = 1

---------------------------------------------------------------------------
(* The boundary of the administrative interface.                           *)

(* C13: malformed administrative input is rejected without side effect.    *)
(* SetSRV with a record whose Host is empty returns an error and leaves    *)
(* the SRV mapping and the A mapping as they were.                         *)
C13_EmptyHostRejected ==
    [][\/ UNCHANGED <<aRecords, ipMem, srvRecords, srvMem>>
       \/ \A sp \in SvcProtos : \A port \in Ports : \A host \in MalformedHosts :
             SetSRV(sp[1], sp[2], port, host)
                 => /\ err' # Nil
                    /\ UNCHANGED <<aRecords, srvRecords>>
                    /\ StoreViewA' = StoreViewA
                    /\ StoreViewSRV' = StoreViewSRV
      ]_vars

(* C16: Close is idempotent.  On a server on which Listen was never        *)
(* called, every call of Close, the first and any later one, returns nil   *)
(* and changes neither the store nor the listener configuration.           *)
C16_CloseIdempotent ==
    [][(closes' # closes /\ server = Nil)
          => /\ err' = Nil
             /\ UNCHANGED <<aRecords, ipMem, srvRecords, srvMem>>
             /\ UNCHANGED <<server, listenIP, listenPort>>
      ]_vars

(* Close has been called twice on a server that holds records and is not   *)
(* listening.                                                              *)
C16_Witness ==
    /\ closes = 2
    /\ server = Nil
    /\ err = Nil
    /\ aRecords # EmptyMap
    /\ srvRecords # EmptyMap

(* C17: canonical domain suffix.  Servers constructed with "docker" and    *)
(* with "docker." have the same domain suffix, ending in exactly one dot,  *)
(* and build the same key for every host and every service and protocol.   *)
C17_CanonicalSuffix ==
    /\ domain = DomainArg \o "."
    /\ \A h \in Hosts : qualifyHost(h) = HostName(h)
    /\ \A sp \in SvcProtos : qualifySrv(sp[1], sp[2]) = ServiceName(sp[1], sp[2])
    /\ DOMAIN aRecords \subseteq {HostName(h) : h \in Hosts}
    /\ DOMAIN srvRecords
           \subseteq {ServiceName(sp[1], sp[2]) : sp \in SvcProtos}

---------------------------------------------------------------------------
(* The goroutines inside the critical sections of the store, by the        *)
(* statement they are at: between Lock and Unlock, between RLock and the   *)
(* deferred RUnlock.                                                       *)
WritersA ==
    {p \in Procs : pc[p] \in {"SetA_Write", "SetA_Unlock", "DeleteA_Delete",
                              "DeleteA_Unlock"}}

ReadersA ==
    {p \in Procs : pc[p] \in {"GetA_Read", "GetA_RUnlock", "ListA_RUnlock"}}

WritersSRV ==
    {p \in Procs : pc[p] \in {"SetSRV_Write", "SetSRV_Unlock",
                              "DeleteSRV_Delete", "DeleteSRV_Unlock"}}

ReadersSRV ==
    {p \in Procs : pc[p] \in {"GetSRV_Read", "GetSRV_RUnlock",
                              "ListSRV_RUnlock"}}

HoldsA(p) == aMutex.w = p \/ p \in aMutex.r

HoldsSRV(p) == srvMutex.w = p \/ p \in srvMutex.r

AOps == {"SetA", "DeleteA", "QueryA", "ListA"}

SRVOps == {"SetSRV", "DeleteSRV", "QuerySRV", "ListSRV"}

(* C18: lock discipline of the store.  While a goroutine is between Lock   *)
(* and Unlock of the A mutex no other goroutine is inside an A critical    *)
(* section, reading or writing, and likewise for the SRV mutex; the        *)
(* goroutines the mutexes record as holders are the ones inside the        *)
(* sections; a goroutine in an A operation does not hold the SRV mutex     *)
(* and one in an SRV operation does not hold the A mutex; no goroutine     *)
(* holds both; and a handler that builds the SRV record or writes the      *)
(* reply holds neither.                                                    *)
C18_LockDiscipline ==
    /\ \A p \in WritersA : WritersA \cup ReadersA = {p}
    /\ \A p \in WritersSRV : WritersSRV \cup ReadersSRV = {p}
    /\ \A p \in Procs :
          /\ HoldsA(p) <=> p \in WritersA \cup ReadersA
          /\ HoldsSRV(p) <=> p \in WritersSRV \cup ReadersSRV
          /\ aMutex.w = p <=> p \in WritersA
          /\ srvMutex.w = p <=> p \in WritersSRV
          /\ frame[p].op \in AOps => ~HoldsSRV(p)
          /\ frame[p].op \in SRVOps => ~HoldsA(p)
          /\ ~(HoldsA(p) /\ HoldsSRV(p))
          /\ pc[p] \in {"GetSRV_Fields", "ServeDNS_Write"}
                => ~HoldsA(p) /\ ~HoldsSRV(p)

(* A writer is inside the A section while a handler that has answered a    *)
(* SRV question waits at the RLock of its A question.                      *)
C18_Witness ==
    \E p, q \in Procs :
        /\ pc[p] = "SetA_Write"
        /\ aMutex.w = p
        /\ pc[q] = "GetA_RLock"
        /\ Len(frame[q].r) = 2
        /\ frame[q].i = 2
        /\ Len(frame[q].answers) = 1

---------------------------------------------------------------------------
(* The goroutines inside ServeDNS.                                         *)
Handlers == {p \in Procs : frame[p].op \in {"QueryA", "QuerySRV"}}

(* C19: every request is answered exactly once.  The requests received     *)
(* are the requests answered and the ones being handled; a handler ends    *)
(* only by the step that writes its reply, which writes one reply; with    *)
(* all goroutines back from their calls both mutexes are free; and under   *)
(* fair scheduling every goroutine inside ServeDNS, and every goroutine    *)
(* inside a store operation, returns.                                      *)
C19_AnsweredOnce ==
    /\ [](served.asked = served.answered + Cardinality(Handlers))
    /\ [](Quiescent => aMutex = NewRWMutex /\ srvMutex = NewRWMutex)
    /\ [][\A p \in Procs :
            p \in Handlers /\ pc'[p] = "idle"
                => /\ pc[p] = "ServeDNS_Write"
                   /\ served'.answered = served.answered + 1
                   /\ request' = frame[p].r]_vars
    /\ [][served'.answered # served.answered
            => \E p \in Handlers : pc[p] = "ServeDNS_Write" /\ pc'[p] = "idle"]_vars
    /\ \A p \in Procs : (pc[p] # "idle") ~> (pc[p] = "idle" /\ frame[p] = NoFrame)

(* One request has been answered, and a handler waits at the RLock of the  *)
(* A mutex for the writer that holds it.                                    *)
C19_Witness ==
    /\ served.answered >= 1
    /\ \E p, q \in Procs :
          /\ p \in Handlers
          /\ pc[p] = "GetA_RLock"
          /\ aMutex.w = q
          /\ q # 0

---------------------------------------------------------------------------
(* A step changes at most the entry of key k: every other key is in the    *)
(* mapping after the step if and only if it was before, with the value it  *)
(* had.                                                                    *)
FrameA(k) ==
    /\ DOMAIN aRecords' \ {k} = DOMAIN aRecords \ {k}
    /\ \A j \in DOMAIN aRecords \ {k} : StoreViewA'[j] = StoreViewA[j]

FrameSRV(k) ==
    /\ DOMAIN srvRecords' \ {k} = DOMAIN srvRecords \ {k}
    /\ \A j \in DOMAIN srvRecords \ {k} : StoreViewSRV'[j] = StoreViewSRV[j]

(* C20: frame of the store operations.  SetA and DeleteA of a host change  *)
(* at most the A entry of its key and nothing of the SRV mapping; SetSRV   *)
(* and DeleteSRV of a service change at most the SRV entry of its key and  *)
(* nothing of the A mapping; a listing and a query change neither.         *)
C20_Frame ==
    [][\/ UNCHANGED <<aRecords, ipMem, srvRecords, srvMem>>
       \/ /\ \A h \in Hosts :
                (DeleteA(h) \/ \E a \in IPs : SetA(h, a))
                => FrameA(qualifyHost(h)) /\ StoreViewSRV' = StoreViewSRV
          /\ \A sp \in SvcProtos :
                (\/ DeleteSRV(sp[1], sp[2])
                 \/ \E port \in Ports, host \in Hosts :
                       SetSRV(sp[1], sp[2], port, host)
                 \/ \E srv \in SrvPtrs : SetSRVAgain(sp[1], sp[2], srv))
                => FrameSRV(qualifySrv(sp[1], sp[2]))
                   /\ StoreViewA' = StoreViewA
          /\ (ListA \/ ListSRV \/ \E r \in SingleRequests : ServeDNS(r))
                => StoreViewA' = StoreViewA /\ StoreViewSRV' = StoreViewSRV
      ]_vars

====
